---------------------------- MODULE Spec2Model ----------------------------
(***************************************************************************)
(* A model of search_aa_award_flights.py: the record normaliser            *)
(* (process_flights), the criteria filter (filter_flights) and the query   *)
(* driver loop of the __main__ block.                                      *)
(*                                                                         *)
(* Python strings are modelled as sequences of one-character strings, so   *)
(* that parsing, lower-casing, substring tests and lexicographic           *)
(* comparison are computed and not assumed.  A datetime.time is the pair   *)
(* <<hour, minute>>.  A call that may raise returns [ok, val].             *)
(***************************************************************************)
EXTENDS Integers, Sequences, FiniteSets, TLC

VARIABLES
    depart_date,           \* args.depart_date: list of date strings
    origin,                \* args.origin: list of airport codes
    destination,           \* args.destination: list of airport codes
    cfg,                   \* the filter criteria of the run
    i,                     \* number of combinations already processed
    pc,                    \* position of the program
    raw,                   \* the raw field dicts extracted from the current page
    raised,                \* whether the last call raised
    flights,               \* local `flights`
    filtered_flights,      \* local `filtered_flights`
    all_flights,
    all_filtered_flights,
    error_combos,
    missing_combos,
    log                    \* per iteration: the combination and what the fetch produced

vars == <<depart_date, origin, destination, cfg, i, pc, raw, raised, flights,
          filtered_flights, all_flights, all_filtered_flights, error_combos,
          missing_combos, log>>

---------------------------------------------------------------------------
(* Characters and strings *)

Digits == <<"0", "1", "2", "3", "4", "5", "6", "7", "8", "9">>

UpperCase == <<"A", "B", "C", "D", "E", "F", "G", "H", "I", "J", "K", "L", "M",
               "N", "O", "P", "Q", "R", "S", "T", "U", "V", "W", "X", "Y", "Z">>

LowerCase == <<"a", "b", "c", "d", "e", "f", "g", "h", "i", "j", "k", "l", "m",
               "n", "o", "p", "q", "r", "s", "t", "u", "v", "w", "x", "y", "z">>

\* The characters of the modelled texts, in code point order.
CodePoints == <<" ", ",", "-", ".", "/">> \o Digits \o <<":">> \o UpperCase \o LowerCase

Ord(c) == CHOOSE k \in 1..Len(CodePoints) : CodePoints[k] = c

\* Ord, tabulated
OrdOf == [c \in {CodePoints[k] : k \in 1..Len(CodePoints)} |-> Ord(c)]

\* The code points of a string: strings compare as these sequences do.
code_points(s) == [k \in 1..Len(s) |-> OrdOf[s[k]]]

IsDigit(c) == \E k \in 1..Len(Digits) : Digits[k] = c

DigitVal(c) == (CHOOSE k \in 1..Len(Digits) : Digits[k] = c) - 1

IsUpper(c) == \E k \in 1..Len(UpperCase) : UpperCase[k] = c

\* str.lower()
lower(s) ==
    [k \in 1..Len(s) |->
        IF IsUpper(s[k])
        THEN LowerCase[CHOOSE j \in 1..Len(UpperCase) : UpperCase[j] = s[k]]
        ELSE s[k]]

\* `word in s` for strings
RECURSIVE contains(_, _)
contains(s, word) ==
    IF Len(s) < Len(word) THEN FALSE
    ELSE IF SubSeq(s, 1, Len(word)) = word THEN TRUE
    ELSE contains(Tail(s), word)

\* Index of the first occurrence of character c in s, 0 when there is none.
RECURSIVE find(_, _)
find(s, c) ==
    IF s = <<>> THEN 0
    ELSE IF Head(s) = c THEN 1
    ELSE LET r == find(Tail(s), c) IN IF r = 0 THEN 0 ELSE r + 1

\* Length of the longest prefix of s made of characters satisfying the test.
RECURSIVE digit_run(_)
digit_run(s) ==
    IF s = <<>> \/ ~IsDigit(Head(s)) THEN 0 ELSE 1 + digit_run(Tail(s))

RECURSIVE space_run(_)
space_run(s) ==
    IF s = <<>> \/ Head(s) # " " THEN 0 ELSE 1 + space_run(Tail(s))

\* int(s) for a non-empty string of decimal digits
RECURSIVE digits_value(_)
digits_value(s) ==
    IF s = <<>> THEN 0
    ELSE 10 * digits_value(SubSeq(s, 1, Len(s) - 1)) + DigitVal(s[Len(s)])

AllDigits(s) == s # <<>> /\ \A k \in 1..Len(s) : IsDigit(s[k])

Raise == [ok |-> FALSE, val |-> <<>>]

Return(v) == [ok |-> TRUE, val |-> v]

\* int(s): the modelled texts hold digits, letters and spaces only
int(s) == IF AllDigits(s) THEN Return(digits_value(s)) ELSE Raise

\* float(s): the modelled mileage texts hold no fraction and no exponent
float(s) == IF AllDigits(s) THEN Return(digits_value(s)) ELSE Raise

\* re.findall(r"\d+", s): the maximal runs of digits of s, left to right
RECURSIVE findall_digits(_)
findall_digits(s) ==
    IF s = <<>> THEN <<>>
    ELSE IF IsDigit(Head(s))
         THEN LET n == digit_run(s)
              IN  <<SubSeq(s, 1, n)>> \o findall_digits(SubSeq(s, n + 1, Len(s)))
         ELSE findall_digits(Tail(s))

\* s.split(" ")[0]
split_first(s) ==
    LET p == find(s, " ") IN IF p = 0 THEN s ELSE SubSeq(s, 1, p - 1)

\* s.replace("K", "")
RECURSIVE replace_K(_)
replace_K(s) ==
    IF s = <<>> THEN <<>>
    ELSE IF Head(s) = "K" THEN replace_K(Tail(s))
    ELSE <<Head(s)>> \o replace_K(Tail(s))

\* datetime.datetime.strptime(s, "%I:%M %p").time()
\*   %I  1[0-2]|0[1-9]|[1-9]      %M  [0-5]\d|\d      " "  \s+      %p  am|pm
\* matched from the start, case-insensitively, with nothing left over.
strptime_IMp(s) ==
    LET colon  == find(s, ":")
        hh     == SubSeq(s, 1, colon - 1)
        rest   == SubSeq(s, colon + 1, Len(s))
        nm     == digit_run(rest)
        mm     == SubSeq(rest, 1, nm)
        rest2  == SubSeq(rest, nm + 1, Len(rest))
        ns     == space_run(rest2)
        ampm   == lower(SubSeq(rest2, ns + 1, Len(rest2)))
        hourOk == /\ AllDigits(hh)
                  /\ \/ Len(hh) = 1 /\ digits_value(hh) >= 1
                     \/ Len(hh) = 2 /\ digits_value(hh) >= 1 /\ digits_value(hh) <= 12
        minOk  == \/ nm = 1
                  \/ nm = 2 /\ DigitVal(mm[1]) <= 5
        h12    == digits_value(hh)
        hour   == IF ampm = <<"a", "m">>
                  THEN (IF h12 = 12 THEN 0 ELSE h12)
                  ELSE (IF h12 = 12 THEN 12 ELSE h12 + 12)
    IN  IF /\ colon > 0
           /\ hourOk
           /\ minOk
           /\ ns >= 1
           /\ ampm \in {<<"a", "m">>, <<"p", "m">>}
        THEN Return(<<hour, digits_value(mm)>>)
        ELSE Raise

\* datetime.time comparison
time_lt(a, b) == a[1] < b[1] \/ (a[1] = b[1] /\ a[2] < b[2])

time_le(a, b) == a = b \/ time_lt(a, b)

---------------------------------------------------------------------------
(* list.sort(key=...) and sorted(..., key=...): the key of every element  *)
(* is computed once, and the elements are sorted by their keys, ascending  *)
(* and stably; on lists this short that is an insertion sort, each element *)
(* in turn going behind the elements already placed whose key is not       *)
(* greater.  A key is a tuple of components, each a sequence of integers   *)
(* (the code points of a string, the hour and minute of a time); tuples,   *)
(* strings and times all compare lexicographically.                        *)

\* a < b for two sequences of integers
RECURSIVE seq_lt(_, _)
seq_lt(a, b) ==
    IF b = <<>> THEN FALSE
    ELSE IF a = <<>> THEN TRUE
    ELSE IF Head(a) # Head(b) THEN Head(a) < Head(b)
    ELSE seq_lt(Tail(a), Tail(b))

\* k1 < k2 for two keys: the first component that differs decides
RECURSIVE key_lt(_, _)
key_lt(k1, k2) ==
    IF k2 = <<>> THEN FALSE
    ELSE IF k1 = <<>> THEN TRUE
    ELSE IF Head(k1) # Head(k2) THEN seq_lt(Head(k1), Head(k2))
    ELSE key_lt(Tail(k1), Tail(k2))

\* An insertion that puts x ahead of the elements with the same key.
sort_insert_ahead(sorted, x) ==
    LET p == Cardinality({j \in 1..Len(sorted) : key_lt(sorted[j][1], x[1])})
    IN  SubSeq(sorted, 1, p) \o <<x>> \o SubSeq(sorted, p + 1, Len(sorted))

\* sorted and x are <<key, element>> pairs
sort_insert(sorted, x) ==
    LET p == Cardinality({j \in 1..Len(sorted) : ~key_lt(x[1], sorted[j][1])})
    IN  SubSeq(sorted, 1, p) \o <<x>> \o SubSeq(sorted, p + 1, Len(sorted))

\* keyed is the list of <<key, element>> pairs.  placed[k] is the sorted list
\* of the first k pairs; each is computed once, as the one member of a set,
\* before the next pair goes into it.
stable_sort(keyed) ==
    LET placed[k \in 0..Len(keyed)] ==
            IF k = 0 THEN <<>>
            ELSE CHOOSE next \in {sort_insert(sorted, keyed[k]) : sorted \in {placed[k - 1]}} : TRUE
    IN  [k \in 1..Len(keyed) |-> placed[Len(keyed)][k][2]]

---------------------------------------------------------------------------
(* process_flights *)

Main == <<"m", "a", "i", "n">>

First == <<"f", "i", "r", "s", "t">>

Business == <<"b", "u", "s", "i", "n", "e", "s", "s">>

\* The tests for "main" and "first" in the other order.
cabin_key_first_before_main(label) ==
    LET cabin == lower(label)
    IN  IF contains(cabin, First) THEN First
        ELSE IF contains(cabin, Main) THEN Main
        ELSE IF contains(cabin, Business) THEN Business
        ELSE cabin

\* The cabin key a raw cabin label is stored under.
cabin_key(label) ==
    LET cabin == lower(label)
    IN  IF contains(cabin, Main) THEN Main
        ELSE IF contains(cabin, First) THEN First
        ELSE IF contains(cabin, Business) THEN Business
        ELSE cabin

\* The loop over flight["num_miles"].items(): items is the sequence of
\* <<cabin, miles>> pairs in the dict's order, num_miles the dict built so far.
RECURSIVE miles_loop(_, _)
miles_loop(items, num_miles) ==
    IF items = <<>> THEN Return(num_miles)
    ELSE LET cabin       == cabin_key(items[1][1])
             miles_value == float(replace_K(items[1][2]))
         IN  IF ~miles_value.ok THEN Raise
             ELSE miles_loop(Tail(items), (cabin :> miles_value.val) @@ num_miles)

\* One pass of the loop body of process_flights.  The num_miles_<cabin>
\* attributes of the processed flight are the field num_miles, a function
\* from the cabin keys present to their values.
process_flight(flight) ==
    LET depart_time    == strptime_IMp(flight.depart_time)
        arrive_time    == strptime_IMp(flight.arrive_time)
        duration_parts == findall_digits(flight.duration)
        num_stops      == int(split_first(flight.num_stops))
        num_miles      == miles_loop(flight.num_miles, <<>>)
    IN  IF /\ depart_time.ok
           /\ arrive_time.ok
           /\ Len(duration_parts) >= 2
           /\ num_stops.ok
           /\ num_miles.ok
        THEN Return([origin      |-> flight.origin,
                     destination |-> flight.destination,
                     depart_time |-> depart_time.val,
                     arrive_time |-> arrive_time.val,
                     duration    |-> digits_value(duration_parts[1]) * 60
                                       + digits_value(duration_parts[2]),
                     num_stops   |-> num_stops.val,
                     num_miles   |-> num_miles.val])
        ELSE Raise

\* key=lambda x: x["depart_time"]
depart_time_key(x) == <<x.depart_time>>

\* process_flights leaving out the flights whose fields do not parse.
process_flights_skipping_malformed(fs) ==
    LET processed == [k \in 1..Len(fs) |-> process_flight(fs[k])]
        parsed    == SelectSeq(processed, LAMBDA r : r.ok)
    IN  Return(stable_sort([k \in 1..Len(parsed) |->
                               <<depart_time_key(parsed[k].val), parsed[k].val>>]))

process_flights(fs) ==
    LET processed == [k \in 1..Len(fs) |-> process_flight(fs[k])]
    IN  IF \E k \in 1..Len(fs) : ~processed[k].ok
        THEN Raise
        ELSE Return(stable_sort([k \in 1..Len(fs) |->
                                    <<depart_time_key(processed[k].val), processed[k].val>>]))

---------------------------------------------------------------------------
(* filter_flights *)

\* The value flight.get("num_miles_main", ...) falls back to.
DefaultMilesMain == 10000000

\* A fallback of zero miles in place of the large one.
get_num_miles_main_zero(flight) ==
    IF Main \in DOMAIN flight.num_miles THEN flight.num_miles[Main] ELSE 0

get_num_miles_main(flight) ==
    IF Main \in DOMAIN flight.num_miles
    THEN flight.num_miles[Main]
    ELSE DefaultMilesMain

\* The condition with the latest departure time excluded.
flight_passes_exclusive(flight, max_miles_main, max_duration, depart_time_range, arrive_time_range, max_stops) ==
    /\ get_num_miles_main(flight) <= max_miles_main
    /\ flight.duration <= max_duration
    /\ time_le(depart_time_range[1], flight.depart_time)
    /\ time_lt(flight.depart_time, depart_time_range[2])
    /\ time_le(arrive_time_range[1], flight.arrive_time)
    /\ time_le(flight.arrive_time, arrive_time_range[2])
    /\ flight.num_stops <= max_stops

\* The condition under which filter_flights appends a flight.
flight_passes(flight, max_miles_main, max_duration, depart_time_range, arrive_time_range, max_stops) ==
    /\ get_num_miles_main(flight) <= max_miles_main
    /\ flight.duration <= max_duration
    /\ time_le(depart_time_range[1], flight.depart_time)
    /\ time_le(flight.depart_time, depart_time_range[2])
    /\ time_le(arrive_time_range[1], flight.arrive_time)
    /\ time_le(flight.arrive_time, arrive_time_range[2])
    /\ flight.num_stops <= max_stops

RECURSIVE filter_flights(_, _, _, _, _, _)
filter_flights(fs, max_miles_main, max_duration, depart_time_range, arrive_time_range, max_stops) ==
    IF fs = <<>> THEN <<>>
    ELSE LET rest == filter_flights(Tail(fs), max_miles_main, max_duration,
                                    depart_time_range, arrive_time_range, max_stops)
         IN  IF flight_passes(Head(fs), max_miles_main, max_duration,
                              depart_time_range, arrive_time_range, max_stops)
             THEN <<Head(fs)>> \o rest
             ELSE rest

---------------------------------------------------------------------------
(* itertools.product(p1, p2, p3): result = [[]], then for each pool         *)
(* result = [x + [y] for x in result for y in pool].                        *)

product_step(result, pool) ==
    [k \in 1..(Len(result) * Len(pool)) |->
        Append(result[((k - 1) \div Len(pool)) + 1], pool[((k - 1) % Len(pool)) + 1])]

\* The product with the second pool varying slowest.
product_second_pool_outermost(p1, p2, p3) ==
    LET swapped == product_step(product_step(product_step(<< <<>> >>, p2), p1), p3)
    IN  [k \in 1..Len(swapped) |-> <<swapped[k][2], swapped[k][1], swapped[k][3]>>]

product(p1, p2, p3) ==
    product_step(product_step(product_step(<< <<>> >>, p1), p2), p3)

---------------------------------------------------------------------------
(* The raw field dicts the extraction may hand to process_flights.  A      *)
(* num_miles dict is the sequence of its <<cabin label, miles>> items, in  *)
(* insertion order, the labels distinct.                                   *)

\* "1:05 PM", "Main Cabin" and "First"
RawJfkAfternoon ==
    [origin      |-> <<"J", "F", "K">>,
     destination |-> <<"L", "A", "X">>,
     depart_time |-> <<"1", ":", "0", "5", " ", "P", "M">>,
     arrive_time |-> <<"4", ":", "3", "0", " ", "P", "M">>,
     duration    |-> <<"6", "h", " ", "2", "5", "m">>,
     num_stops   |-> <<"1", " ", "s", "t", "o", "p">>,
     num_miles   |-> <<<<<<"M", "a", "i", "n", " ", "C", "a", "b", "i", "n">>, <<"2", "0", "K">>>>,
                      <<<<"F", "i", "r", "s", "t">>, <<"5", "5", "K">>>>>>]

\* both times on the bounds of the default time windows; upper-case label
RawEwrMorning ==
    [origin      |-> <<"E", "W", "R">>,
     destination |-> <<"L", "A", "X">>,
     depart_time |-> <<"7", ":", "0", "0", " ", "A", "M">>,
     arrive_time |-> <<"1", "2", ":", "0", "0", " ", "P", "M">>,
     duration    |-> <<"5", "h", " ", "3", "0", "m">>,
     num_stops   |-> <<"0", " ", "s", "t", "o", "p", "s">>,
     num_miles   |-> <<<<<<"M", "A", "I", "N">>, <<"1", "5", "K">>>>>>]

\* no main cabin fare
RawJfkEarly ==
    [origin      |-> <<"J", "F", "K">>,
     destination |-> <<"L", "A", "X">>,
     depart_time |-> <<"6", ":", "5", "9", " ", "A", "M">>,
     arrive_time |-> <<"1", "1", ":", "5", "9", " ", "A", "M">>,
     duration    |-> <<"5", " ", "h", "r", " ", "0", " ", "m", "i", "n">>,
     num_stops   |-> <<"0", " ", "s", "t", "o", "p", "s">>,
     num_miles   |-> <<<<<<"B", "u", "s", "i", "n", "e", "s", "s">>, <<"6", "0", "K">>>>>>]

\* two labels that hold "main", one of them "first" too; leaves when
\* RawJfkAfternoon does
RawJfkTwoStops ==
    [origin      |-> <<"J", "F", "K">>,
     destination |-> <<"S", "F", "O">>,
     depart_time |-> <<"0", "1", ":", "0", "5", " ", "p", "m">>,
     arrive_time |-> <<"1", "0", ":", "0", "0", " ", "P", "M">>,
     duration    |-> <<"1", "1", "h", " ", "0", "m">>,
     num_stops   |-> <<"2", " ", "s", "t", "o", "p", "s">>,
     num_miles   |-> <<<<<<"M", "a", "i", "n", " ", "P", "l", "u", "s">>, <<"2", "5", "K">>>>,
                      <<<<"F", "i", "r", "s", "t", " ", "a", "n", "d", " ", "M", "a", "i", "n">>, <<"1", "8", "K">>>>>>]

\* a label holding "first" and "business", and an unrecognised label
RawJfkMorning ==
    [origin      |-> <<"J", "F", "K">>,
     destination |-> <<"L", "A", "X">>,
     depart_time |-> <<"8", ":", "1", "5", " ", "A", "M">>,
     arrive_time |-> <<"1", "2", ":", "3", "0", " ", "P", "M">>,
     duration    |-> <<"5", "h", " ", "1", "5", "m">>,
     num_stops   |-> <<"1", " ", "s", "t", "o", "p">>,
     num_miles   |-> <<<<<<"M", "a", "i", "n", " ", "C", "a", "b", "i", "n">>, <<"1", "2", "K">>>>,
                      <<<<"B", "u", "s", "i", "n", "e", "s", "s", " ", "F", "i", "r", "s", "t">>, <<"7", "0", "K">>>>,
                      <<<<"P", "r", "e", "m", "i", "u", "m", " ", "E", "c", "o", "n", "o", "m", "y">>, <<"3", "0", "K">>>>>>]

\* midnight, and an empty num_miles dict
RawLgaMidnight ==
    [origin      |-> <<"L", "G", "A">>,
     destination |-> <<"S", "F", "O">>,
     depart_time |-> <<"1", "2", ":", "0", "0", " ", "A", "M">>,
     arrive_time |-> <<"1", "2", ":", "4", "5", " ", "P", "M">>,
     duration    |-> <<"1", "2", "h", " ", "4", "5", "m">>,
     num_stops   |-> <<"1", " ", "s", "t", "o", "p">>,
     num_miles   |-> <<>>]

\* three labels, the first and the last under the same key
RawLgaAfternoon ==
    [origin      |-> <<"L", "G", "A">>,
     destination |-> <<"L", "A", "X">>,
     depart_time |-> <<"1", ":", "0", "5", " ", "P", "M">>,
     arrive_time |-> <<"9", ":", "1", "0", " ", "P", "M">>,
     duration    |-> <<"8", "h", " ", "5", "m">>,
     num_stops   |-> <<"1", " ", "s", "t", "o", "p">>,
     num_miles   |-> <<<<<<"F", "i", "r", "s", "t">>, <<"5", "0", "K">>>>,
                      <<<<"B", "u", "s", "i", "n", "e", "s", "s">>, <<"4", "0", "K">>>>,
                      <<<<"f", "i", "r", "s", "t", " ", "c", "l", "a", "s", "s">>, <<"4", "5", "K">>>>>>]

\* a 24-hour time
RawBadTime ==
    [origin      |-> <<"J", "F", "K">>,
     destination |-> <<"L", "A", "X">>,
     depart_time |-> <<"1", "3", ":", "0", "5">>,
     arrive_time |-> <<"4", ":", "3", "0", " ", "P", "M">>,
     duration    |-> <<"6", "h", " ", "2", "5", "m">>,
     num_stops   |-> <<"1", " ", "s", "t", "o", "p">>,
     num_miles   |-> <<<<<<"M", "a", "i", "n", " ", "C", "a", "b", "i", "n">>, <<"2", "0", "K">>>>>>]

\* a duration with one integer
RawBadDuration ==
    [origin      |-> <<"J", "F", "K">>,
     destination |-> <<"L", "A", "X">>,
     depart_time |-> <<"9", ":", "0", "0", " ", "A", "M">>,
     arrive_time |-> <<"9", ":", "4", "5", " ", "A", "M">>,
     duration    |-> <<"4", "5", "m">>,
     num_stops   |-> <<"0", " ", "s", "t", "o", "p", "s">>,
     num_miles   |-> <<<<<<"M", "a", "i", "n", " ", "C", "a", "b", "i", "n">>, <<"9", "K">>>>>>]

\* a stop count with no leading integer
RawBadStops ==
    [origin      |-> <<"E", "W", "R">>,
     destination |-> <<"L", "A", "X">>,
     depart_time |-> <<"1", "0", ":", "0", "0", " ", "A", "M">>,
     arrive_time |-> <<"1", ":", "0", "0", " ", "P", "M">>,
     duration    |-> <<"6", "h", " ", "0", "m">>,
     num_stops   |-> <<"N", "o", "n", "s", "t", "o", "p">>,
     num_miles   |-> <<<<<<"M", "a", "i", "n", " ", "C", "a", "b", "i", "n">>, <<"2", "0", "K">>>>>>]

\* a mileage that is no number
RawBadMiles ==
    [origin      |-> <<"E", "W", "R">>,
     destination |-> <<"L", "A", "X">>,
     depart_time |-> <<"1", "0", ":", "0", "0", " ", "A", "M">>,
     arrive_time |-> <<"1", ":", "0", "0", " ", "P", "M">>,
     duration    |-> <<"6", "h", " ", "0", "m">>,
     num_stops   |-> <<"1", " ", "s", "t", "o", "p">>,
     num_miles   |-> <<<<<<"M", "a", "i", "n", " ", "C", "a", "b", "i", "n">>, <<"1", "2", ",", "5", "K">>>>>>]

RawFlights ==
    {RawJfkAfternoon, RawEwrMorning, RawJfkEarly, RawJfkTwoStops, RawJfkMorning,
     RawLgaMidnight, RawLgaAfternoon, RawBadTime, RawBadDuration, RawBadStops,
     RawBadMiles}

\* The longest list of raw flights process_flights is applied to on its own.
MaxFlights == 3

\* All sequences over S of length at most n.
RECURSIVE SeqsUpTo(_, _)
SeqsUpTo(S, n) ==
    IF n = 0 THEN {<<>>}
    ELSE LET shorter == SeqsUpTo(S, n - 1)
         IN  shorter \cup {Append(q, x) : q \in shorter, x \in S}

---------------------------------------------------------------------------
(* The query driver: the loop of the __main__ block and the final sort.    *)

\* The filter criteria argparse yields by default.
DefaultCriteria ==
    [max_miles_main    |-> 20,
     max_duration      |-> 11 * 60,
     depart_time_range |-> << <<7, 0>>, <<16, 0>> >>,
     arrive_time_range |-> << <<12, 0>>, <<22, 0>> >>,
     max_stops         |-> 1]

\* --max_miles_main 15 --max_stops 0
TightCriteria == [DefaultCriteria EXCEPT !.max_miles_main = 15, !.max_stops = 0]

Date1 == <<"2", "0", "2", "4", "-", "0", "1", "-", "0", "1">>

Date2 == <<"2", "0", "2", "4", "-", "0", "1", "-", "0", "2">>

JFK == <<"J", "F", "K">>

LGA == <<"L", "G", "A">>

LAX == <<"L", "A", "X">>

SFO == <<"S", "F", "O">>

\* The most combinations a modelled run iterates over.
MaxCombos == 4

\* The command lines of the modelled runs: each of the three lists holds one
\* or two values (nargs="+": never none), the dates in either order.
Arguments ==
    {a \in [depart_date : {<<Date1>>, <<Date2, Date1>>, <<Date1, Date2>>},
            origin      : {<<JFK>>, <<LGA, JFK>>},
            destination : {<<LAX>>, <<LAX, SFO>>},
            criteria    : {DefaultCriteria, TightCriteria}] :
        Len(a.depart_date) * Len(a.origin) * Len(a.destination) <= MaxCombos}

\* What driver.get and the extraction of scrape_flight_page produce for one
\* url: an exception, or the list of raw field dicts of the page.
FetchRaises == [kind |-> "raise", page |-> <<>>]

Fetched(page) == [kind |-> "page", page |-> page]

Pages ==
    {<<>>,
     <<RawJfkAfternoon, RawEwrMorning>>,
     <<RawJfkEarly, RawJfkMorning>>,
     <<RawJfkAfternoon, RawBadTime>>,
     <<RawBadDuration, RawEwrMorning>>,
     <<RawEwrMorning, RawBadStops>>}

FetchOutcomes == {FetchRaises} \cup {Fetched(page) : page \in Pages}

\* scrape_flight_page, given what the fetch and the extraction produce
scrape_flight_page(fetch) ==
    IF fetch.kind = "raise" THEN Raise ELSE process_flights(fetch.page)

\* scrape_flight_page, tabulated over the modelled outcomes
Scraped == [fetch \in FetchOutcomes |-> scrape_flight_page(fetch)]

\* Every flight dated with the first departure date.
set_date_first(flight, dt) == ("date" :> depart_date[1]) @@ flight

\* flight["date"] = dt
set_date(flight, dt) == ("date" :> dt) @@ flight

\* The key (x["date"], x["origin"], x["depart_time"]).
final_key_date_first(x) == <<code_points(x.date), code_points(x.origin), x.depart_time>>

\* key=lambda x: (x["origin"], x["date"], x["depart_time"])
final_key(x) == <<code_points(x.origin), code_points(x.date), x.depart_time>>

\* The combination not recorded.
record_error_dropped(errors, combo) == errors

\* error_combos.append((dt, o, d))
record_error(errors, combo) == Append(errors, combo)

\* The combination not recorded.
record_missing_dropped(missing, combo) == missing

\* missing_combos.append((dt, o, d))
record_missing(missing, combo) == Append(missing, combo)

\* The (dt, o, d) tuples of the loop, in its order
combos == product(depart_date, origin, destination)

Init ==
    /\ \E a \in Arguments :
          /\ depart_date = a.depart_date
          /\ origin = a.origin
          /\ destination = a.destination
          /\ cfg = a.criteria
    /\ i = 0
    /\ pc = "loop"
    /\ raw = <<>>
    /\ raised = FALSE
    /\ flights = <<>>
    /\ filtered_flights = <<>>
    /\ all_flights = <<>>
    /\ all_filtered_flights = <<>>
    /\ error_combos = <<>>
    /\ missing_combos = <<>>
    /\ log = <<>>

\* One iteration of the for loop, on what the fetch of its url produces.
\* scraped is what scrape_flight_page returns or raises, dated the flights
\* with their date set, filtered what filter_flights returns for them.
LoopBody ==
    /\ pc = "loop"
    /\ i < Len(combos)
    /\ \E fetch \in FetchOutcomes, combo \in {combos[i + 1]} :
       \E scraped \in {Scraped[fetch]} :
       \E dated \in {[k \in 1..Len(scraped.val) |-> set_date(scraped.val[k], combo[1])]} :
       \E filtered \in {filter_flights(dated, cfg.max_miles_main, cfg.max_duration,
                                       cfg.depart_time_range, cfg.arrive_time_range,
                                       cfg.max_stops)} :
          /\ log' = Append(log, [combo |-> combo, fetch |-> fetch])
          /\ raw' = fetch.page
          /\ raised' = ~scraped.ok
          /\ i' = i + 1
          /\ IF ~scraped.ok
             THEN /\ error_combos' = record_error(error_combos, combo)
                  /\ flights' = <<>>
                  /\ filtered_flights' = <<>>
                  /\ UNCHANGED <<missing_combos, all_flights, all_filtered_flights>>
             ELSE IF Len(scraped.val) = 0
             THEN /\ missing_combos' = record_missing(missing_combos, combo)
                  /\ flights' = <<>>
                  /\ filtered_flights' = <<>>
                  /\ UNCHANGED <<error_combos, all_flights, all_filtered_flights>>
             ELSE /\ flights' = dated
                  /\ filtered_flights' = filtered
                  /\ all_flights' = all_flights \o dated
                  /\ all_filtered_flights' = all_filtered_flights \o filtered
                  /\ UNCHANGED <<error_combos, missing_combos>>
    /\ UNCHANGED <<depart_date, origin, destination, cfg, pc>>

\* After the loop: all_filtered_flights = sorted(all_filtered_flights, key=...)
FinalSort ==
    /\ pc = "loop"
    /\ i = Len(combos)
    /\ all_filtered_flights' =
          stable_sort([k \in 1..Len(all_filtered_flights) |->
                          <<final_key(all_filtered_flights[k]), all_filtered_flights[k]>>])
    /\ pc' = "done"
    /\ UNCHANGED <<depart_date, origin, destination, cfg, i, raw, raised, flights,
                   filtered_flights, all_flights, error_combos, missing_combos, log>>

Next == LoopBody \/ FinalSort

Spec == Init /\ [][Next]_vars

\* The loop is sequential code: it takes its next step whenever it has one.
FairSpec == Spec /\ WF_vars(Next)

---------------------------------------------------------------------------
(* process_flights on its own *)

InitProcess ==
    /\ raw \in SeqsUpTo(RawFlights, MaxFlights)
    /\ pc = "process_flights"
    /\ raised = FALSE
    /\ flights = <<>>
    /\ depart_date = <<>>
    /\ origin = <<>>
    /\ destination = <<>>
    /\ cfg = DefaultCriteria
    /\ i = 0
    /\ filtered_flights = <<>>
    /\ all_flights = <<>>
    /\ all_filtered_flights = <<>>
    /\ error_combos = <<>>
    /\ missing_combos = <<>>
    /\ log = <<>>

CallProcessFlights ==
    /\ pc = "process_flights"
    /\ LET result == process_flights(raw)
       IN  /\ raised' = ~result.ok
           /\ flights' = result.val
    /\ pc' = "returned"
    /\ UNCHANGED <<depart_date, origin, destination, cfg, i, raw, filtered_flights,
                   all_flights, all_filtered_flights, error_combos, missing_combos, log>>

SpecProcess == InitProcess /\ [][CallProcessFlights]_vars

---------------------------------------------------------------------------
(* filter_flights on its own *)

\* A processed flight with the given main cabin mileage.
MainFlight(miles, duration, depart_time, arrive_time, num_stops) ==
    [origin      |-> JFK,
     destination |-> LAX,
     depart_time |-> depart_time,
     arrive_time |-> arrive_time,
     duration    |-> duration,
     num_stops   |-> num_stops,
     num_miles   |-> (Main :> miles)]

\* Every field on the upper bound of the default criteria
AtUpperBounds == MainFlight(20, 660, <<16, 0>>, <<22, 0>>, 1)

\* The times on the lower bounds of the default windows
AtLowerBounds == MainFlight(15, 330, <<7, 0>>, <<12, 0>>, 0)

\* AtUpperBounds with a first cabin fare in place of the main cabin fare
NoMainFare == [AtUpperBounds EXCEPT !.num_miles = (First :> 20)]

\* AtUpperBounds and AtLowerBounds, and flights one step beyond one bound
FilterFlights ==
    {AtUpperBounds,
     AtLowerBounds,
     NoMainFare,
     [AtUpperBounds EXCEPT !.num_miles = (Main :> 21)],
     [AtUpperBounds EXCEPT !.duration = 661],
     [AtUpperBounds EXCEPT !.depart_time = <<16, 1>>],
     [AtUpperBounds EXCEPT !.depart_time = <<17, 0>>],
     [AtLowerBounds EXCEPT !.depart_time = <<6, 59>>],
     [AtUpperBounds EXCEPT !.arrive_time = <<22, 1>>],
     [AtLowerBounds EXCEPT !.arrive_time = <<11, 59>>],
     [AtUpperBounds EXCEPT !.num_stops = 2]}

\* --max_miles_main 10000000 and every other bound one step wider
WideCriteria ==
    [max_miles_main    |-> DefaultMilesMain,
     max_duration      |-> 661,
     depart_time_range |-> << <<6, 59>>, <<16, 1>> >>,
     arrive_time_range |-> << <<11, 59>>, <<22, 1>> >>,
     max_stops         |-> 2]

FilterCriteria == {DefaultCriteria, TightCriteria, WideCriteria}

InitFilter ==
    /\ flights \in SeqsUpTo(FilterFlights, MaxFlights)
    /\ cfg \in FilterCriteria
    /\ pc = "filter_flights"
    /\ filtered_flights = <<>>
    /\ raw = <<>>
    /\ raised = FALSE
    /\ depart_date = <<>>
    /\ origin = <<>>
    /\ destination = <<>>
    /\ i = 0
    /\ all_flights = <<>>
    /\ all_filtered_flights = <<>>
    /\ error_combos = <<>>
    /\ missing_combos = <<>>
    /\ log = <<>>

CallFilterFlights ==
    /\ pc = "filter_flights"
    /\ filtered_flights' = filter_flights(flights, cfg.max_miles_main, cfg.max_duration,
                                          cfg.depart_time_range, cfg.arrive_time_range,
                                          cfg.max_stops)
    /\ pc' = "filtered"
    /\ UNCHANGED <<depart_date, origin, destination, cfg, i, raw, raised, flights,
                   all_flights, all_filtered_flights, error_combos, missing_combos, log>>

SpecFilter == InitFilter /\ [][CallFilterFlights]_vars

---------------------------------------------------------------------------
(* Properties of filter_flights, checked under SpecFilter *)

\* Minutes since midnight of a time of day
MinuteOfDay(t) == t[1] * 60 + t[2]

HasMainFare(flight) == Main \in DOMAIN flight.num_miles

\* The five criteria, each with inclusive bounds; a flight with no main
\* cabin fare counts as costing DefaultMilesMain.
MeetsCriteria(flight, c) ==
    /\ (IF HasMainFare(flight) THEN flight.num_miles[Main] ELSE DefaultMilesMain)
          <= c.max_miles_main
    /\ flight.duration <= c.max_duration
    /\ MinuteOfDay(c.depart_time_range[1]) <= MinuteOfDay(flight.depart_time)
    /\ MinuteOfDay(flight.depart_time) <= MinuteOfDay(c.depart_time_range[2])
    /\ MinuteOfDay(c.arrive_time_range[1]) <= MinuteOfDay(flight.arrive_time)
    /\ MinuteOfDay(flight.arrive_time) <= MinuteOfDay(c.arrive_time_range[2])
    /\ flight.num_stops <= c.max_stops

MeetsAllButMiles(flight, c) ==
    MeetsCriteria([flight EXCEPT !.num_miles = (Main :> 0)], c)

InSeq(x, s) == \E k \in 1..Len(s) : s[k] = x

\* C4: filter_flights returns exactly the flights of its input that meet all
\* five criteria, in their input order, the bounds of every criterion
\* inclusive: a flight with a field on its bound is kept.
C4_FilterKeepsExactlyTheFlightsWithinBounds ==
    pc = "filtered" =>
        /\ filtered_flights = SelectSeq(flights, LAMBDA f : MeetsCriteria(f, cfg))
        /\ \A k \in 1..Len(flights) :
              (/\ flights[k].num_miles = (Main :> cfg.max_miles_main)
               /\ flights[k].duration = cfg.max_duration
               /\ flights[k].depart_time = cfg.depart_time_range[2]
               /\ flights[k].arrive_time = cfg.arrive_time_range[2]
               /\ flights[k].num_stops = cfg.max_stops)
              => InSeq(flights[k], filtered_flights)

\* C4 witness: a filtered list that kept a flight lying on every upper bound
\* and one lying on the lower bounds of the time windows, and dropped a flight
\* one minute past the departure window.
C4_Witness ==
    /\ pc = "filtered"
    /\ cfg = DefaultCriteria
    /\ Len(flights) = 3
    /\ filtered_flights = <<AtLowerBounds, AtUpperBounds>>
    /\ flights[2] = [AtUpperBounds EXCEPT !.depart_time = <<16, 1>>]

\* C5 as stated: no flight without a main cabin fare is ever in the result
\* (every max_miles_main of the modelled criteria is finite).
C5_NoMainFareAlwaysExcluded ==
    pc = "filtered" =>
        \A k \in 1..Len(filtered_flights) : HasMainFare(filtered_flights[k])

\* C5 amended: with max_miles_main below the fallback value 10000000, no
\* flight without a main cabin fare is in the result, whatever its other
\* fields, and filter_flights returns normally on such flights.
C5_NoMainFareExcludedBelowFallback ==
    (pc = "filtered" /\ cfg.max_miles_main < DefaultMilesMain) =>
        /\ \A k \in 1..Len(filtered_flights) : HasMainFare(filtered_flights[k])
        /\ Len(filtered_flights) <= Len(flights)

\* C5 witness: a flight without a main cabin fare that meets every other
\* criterion was filtered out, next to a flight that was kept.
C5_Witness ==
    /\ pc = "filtered"
    /\ cfg.max_miles_main < DefaultMilesMain
    /\ \E k \in 1..Len(flights) :
          /\ ~HasMainFare(flights[k])
          /\ MeetsAllButMiles(flights[k], cfg)
          /\ ~InSeq(flights[k], filtered_flights)
    /\ filtered_flights # <<>>

---------------------------------------------------------------------------
(* Properties of process_flights, checked under SpecProcess *)

\* C8: process_flights returns one processed flight per raw flight, in
\* ascending order of depart_time, and flights with the same depart_time stay
\* in the order they had in the input.
C8_ProcessFlightsSortsStably ==
    (pc = "returned" /\ ~raised) =>
        /\ Len(flights) = Len(raw)
        /\ \A a, b \in 1..Len(flights) :
              a < b => MinuteOfDay(flights[a].depart_time)
                          <= MinuteOfDay(flights[b].depart_time)
        /\ \E at \in Permutations(1..Len(raw)) :
              /\ \A k \in 1..Len(raw) : flights[k] = process_flight(raw[at[k]]).val
              /\ \A a, b \in 1..Len(raw) :
                    (a < b /\ flights[a].depart_time = flights[b].depart_time)
                        => at[a] < at[b]

\* C8 witness: the 7:00 AM flight given last comes out first, and the two
\* different 1:05 PM flights come out in the order they were given in.
C8_Witness ==
    /\ pc = "returned"
    /\ ~raised
    /\ raw = <<RawLgaAfternoon, RawJfkAfternoon, RawEwrMorning>>
    /\ flights[1].depart_time = <<7, 0>>
    /\ flights[2].depart_time = flights[3].depart_time
    /\ flights[2].origin = LGA
    /\ flights[3].origin = JFK

\* The same letter, in either case
SameLetter(c, d) ==
    \/ c = d
    \/ \E j \in 1..Len(UpperCase) : {c, d} = {UpperCase[j], LowerCase[j]}

\* word occurs in label, whatever the case of the letters of label
HoldsWord(label, word) ==
    \E p \in 0..(Len(label) - Len(word)) :
        \A q \in 1..Len(word) : SameLetter(label[p + q], word[q])

CanonicalKey(label) ==
    IF HoldsWord(label, Main) THEN Main
    ELSE IF HoldsWord(label, First) THEN First
    ELSE IF HoldsWord(label, Business) THEN Business
    ELSE lower(label)

\* The number written before the "K" of a mileage text
MilesWritten(text) == digits_value(SubSeq(text, 1, Len(text) - 1))

\* The last of the items whose label has the given canonical key
LastUnder(items, key) ==
    items[CHOOSE j \in 1..Len(items) :
              /\ CanonicalKey(items[j][1]) = key
              /\ \A l \in (j + 1)..Len(items) : CanonicalKey(items[l][1]) # key]

MilesAsClaimed(items, num_miles) ==
    /\ DOMAIN num_miles = {CanonicalKey(items[j][1]) : j \in 1..Len(items)}
    /\ \A key \in DOMAIN num_miles :
          num_miles[key] = MilesWritten(LastUnder(items, key)[2])

\* C9: a cabin label is stored under main, first or business, the first of
\* these words it holds in that order and whatever its case, or under its
\* lower-cased text when it holds none; a processed flight has a mileage for
\* exactly the keys of its raw labels, each the value of the last label
\* stored under that key.
C9_CabinKeysAndLastLabelWins ==
    (pc = "returned" /\ ~raised) =>
        \E at \in Permutations(1..Len(raw)) :
            \A k \in 1..Len(raw) :
                /\ flights[k].origin = raw[at[k]].origin
                /\ flights[k].depart_time = strptime_IMp(raw[at[k]].depart_time).val
                /\ MilesAsClaimed(raw[at[k]].num_miles, flights[k].num_miles)

\* C9 witness: processed flights with main taken from the last of two labels
\* holding "main" (the last one holding "first" too), with first taken from
\* "Business First" beside an unrecognised label, and with no mileage at all.
C9_Witness ==
    /\ pc = "returned"
    /\ ~raised
    /\ raw = <<RawJfkTwoStops, RawJfkMorning, RawLgaMidnight>>
    /\ flights[1].num_miles = <<>>
    /\ flights[2].num_miles[First] = 70
    /\ lower(<<"P", "r", "e", "m", "i", "u", "m", " ", "E", "c", "o", "n", "o", "m", "y">>)
          \in DOMAIN flights[2].num_miles
    /\ Business \notin DOMAIN flights[2].num_miles
    /\ flights[3].num_miles = (Main :> 18)

---------------------------------------------------------------------------
(* Properties of the query driver, checked under Spec and FairSpec *)

Last(s) == s[Len(s)]

\* A step that is one iteration of the loop
Iterates == Len(log') = Len(log) + 1

Malformed == {RawBadTime, RawBadDuration, RawBadStops}

\* The fetch raised, or the page holds a raw flight that does not parse.
ScrapeFails(fetch) ==
    \/ fetch.kind = "raise"
    \/ \E k \in 1..Len(fetch.page) : fetch.page[k] \in Malformed \cup {RawBadMiles}

\* The fetch succeeded and the page holds no flight.
ScrapeFindsNone(fetch) == fetch.kind = "page" /\ fetch.page = <<>>

CombosOf(entries) == [k \in 1..Len(entries) |-> entries[k].combo]

\* C1: an iteration whose scrape raises appends its combination to
\* error_combos, leaves all_flights, all_filtered_flights and missing_combos
\* alone and goes on to the next combination; error_combos always holds
\* exactly the combinations whose scrape raised, in iteration order.
C1_ErrorsAreExactlyTheRaisedCombos ==
    /\ [](error_combos = CombosOf(SelectSeq(log, LAMBDA e : ScrapeFails(e.fetch))))
    /\ [][(Iterates /\ ScrapeFails(Last(log').fetch)) =>
             /\ error_combos' = Append(error_combos, Last(log').combo)
             /\ all_flights' = all_flights
             /\ all_filtered_flights' = all_filtered_flights
             /\ missing_combos' = missing_combos
             /\ i' = i + 1
             /\ pc' = "loop"]_vars

\* C1 witness: a finished run of four combinations, the first with a fetch
\* that raised, the third with a page that did not parse, the other two
\* scraped normally.
C1_Witness ==
    /\ pc = "done"
    /\ Len(log) = 4
    /\ log[1].fetch.kind = "raise"
    /\ ~ScrapeFails(log[2].fetch)
    /\ log[3].fetch.kind = "page" /\ ScrapeFails(log[3].fetch)
    /\ ~ScrapeFails(log[4].fetch)
    /\ error_combos = <<log[1].combo, log[3].combo>>
    /\ all_flights # <<>>

\* C2: an iteration whose scrape succeeds with no flight appends its
\* combination to missing_combos and not to error_combos, and adds nothing to
\* all_flights or all_filtered_flights; missing_combos always holds exactly
\* the combinations whose scrape succeeded with no flight.
C2_MissingAreExactlyTheEmptyCombos ==
    /\ [](missing_combos = CombosOf(SelectSeq(log, LAMBDA e : ScrapeFindsNone(e.fetch))))
    /\ [][(Iterates /\ ScrapeFindsNone(Last(log').fetch)) =>
             /\ missing_combos' = Append(missing_combos, Last(log').combo)
             /\ error_combos' = error_combos
             /\ all_flights' = all_flights
             /\ all_filtered_flights' = all_filtered_flights]_vars

\* C2 witness: a finished run with an empty page, a fetch that raised and a
\* page with flights; only the first is in missing_combos.
C2_Witness ==
    /\ pc = "done"
    /\ Len(log) >= 3
    /\ ScrapeFindsNone(log[1].fetch)
    /\ log[2].fetch.kind = "raise"
    /\ log[3].fetch.kind = "page" /\ ~ScrapeFails(log[3].fetch) /\ log[3].fetch.page # <<>>
    /\ missing_combos = <<log[1].combo>>
    /\ error_combos = <<log[2].combo>>

\* The k-th element of the Cartesian product: dates outermost, destinations
\* fastest.
ComboAt(k) ==
    <<depart_date[((k - 1) \div (Len(origin) * Len(destination))) + 1],
      origin[(((k - 1) \div Len(destination)) % Len(origin)) + 1],
      destination[((k - 1) % Len(destination)) + 1]>>

NumCombos == Len(depart_date) * Len(origin) * Len(destination)

\* C3: the iterations take the elements of the Cartesian product one by one,
\* dates outermost, then origins, destinations fastest; whatever the scrapes
\* do, the run reaches the final sort, having processed every element once.
C3_EveryComboOnceInOrderThenSort ==
    /\ [](/\ Len(log) = i
          /\ i <= NumCombos
          /\ \A k \in 1..Len(log) : log[k].combo = ComboAt(k))
    /\ [](pc = "done" => Len(log) = NumCombos)
    /\ <>(pc = "done")

\* C3 witness: a finished run over two dates and two origins in which a fetch
\* raised and a page did not parse.
C3_Witness ==
    /\ pc = "done"
    /\ Len(depart_date) = 2
    /\ Len(origin) = 2
    /\ Len(log) = 4
    /\ \E k \in 1..4 : log[k].fetch.kind = "raise"
    /\ \E k \in 1..4 : log[k].fetch.kind = "page" /\ ScrapeFails(log[k].fetch)
    /\ log[2].combo = <<depart_date[1], origin[2], destination[1]>>
    /\ log[3].combo = <<depart_date[2], origin[1], destination[1]>>

\* C6: when one raw flight of a page has a malformed time, a duration with
\* fewer than two integers or a stop count with no leading integer, the
\* iteration records the combination in error_combos and adds none of the
\* flights of the page, the well-formed ones included, to all_flights or
\* all_filtered_flights.
C6_MalformedFlightAbandonsTheCombo ==
    [][(/\ Iterates
        /\ Last(log').fetch.kind = "page"
        /\ \E k \in 1..Len(Last(log').fetch.page) : Last(log').fetch.page[k] \in Malformed) =>
            /\ error_combos' = Append(error_combos, Last(log').combo)
            /\ all_flights' = all_flights
            /\ all_filtered_flights' = all_filtered_flights
            /\ missing_combos' = missing_combos]_vars

\* C6 witness: three iterations, on pages holding a well-formed flight next to
\* a malformed time, a malformed duration and a malformed stop count; all
\* three combinations are in error_combos and no flight was collected.
C6_Witness ==
    /\ Len(log) = 3
    /\ InSeq(RawBadTime, log[1].fetch.page) /\ InSeq(RawJfkAfternoon, log[1].fetch.page)
    /\ InSeq(RawBadDuration, log[2].fetch.page) /\ InSeq(RawEwrMorning, log[2].fetch.page)
    /\ InSeq(RawBadStops, log[3].fetch.page) /\ InSeq(RawEwrMorning, log[3].fetch.page)
    /\ error_combos = CombosOf(log)
    /\ all_flights = <<>>
    /\ all_filtered_flights = <<>>

\* The date of a YYYY-MM-DD text as a number that grows with the calendar
DateNumber(d) ==
    digits_value(SubSeq(d, 1, 4)) * 10000
        + digits_value(SubSeq(d, 6, 7)) * 100
        + digits_value(SubSeq(d, 9, 10))

\* s1 comes before s2 in the order of strings
RECURSIVE StringBefore(_, _)
StringBefore(s1, s2) ==
    IF s2 = <<>> THEN FALSE
    ELSE IF s1 = <<>> THEN TRUE
    ELSE IF Head(s1) # Head(s2) THEN Ord(Head(s1)) < Ord(Head(s2))
    ELSE StringBefore(Tail(s1), Tail(s2))

\* a may stand before b: origin ascending, then date, then depart_time
KeyInOrder(a, b) ==
    \/ StringBefore(a.origin, b.origin)
    \/ /\ a.origin = b.origin
       /\ \/ DateNumber(a.date) < DateNumber(b.date)
          \/ /\ DateNumber(a.date) = DateNumber(b.date)
             /\ MinuteOfDay(a.depart_time) <= MinuteOfDay(b.depart_time)

Count(x, s) == Cardinality({k \in 1..Len(s) : s[k] = x})

IsPermutationOf(s, t) ==
    /\ Len(s) = Len(t)
    /\ \A k \in 1..Len(s) : Count(s[k], s) = Count(s[k], t)

\* C7: the final sort leaves all_filtered_flights a permutation of the
\* filtered flights accumulated by the loop, ascending by origin, then by
\* date (the earlier date first), then by depart_time.
C7_FinalSortByOriginDateDepart ==
    [][(pc = "loop" /\ pc' = "done") =>
          /\ IsPermutationOf(all_filtered_flights', all_filtered_flights)
          /\ \A a, b \in 1..Len(all_filtered_flights') :
                a < b => KeyInOrder(all_filtered_flights'[a], all_filtered_flights'[b])]_vars

\* C7 witness: a sorted result that differs from the accumulation order and
\* holds two flights of one origin on different dates and two flights of one
\* origin and date at different times.
C7_Witness ==
    /\ pc = "done"
    /\ all_filtered_flights # SelectSeq(all_flights, LAMBDA f : MeetsCriteria(f, cfg))
    /\ \E k \in 1..(Len(all_filtered_flights) - 1) :
          /\ all_filtered_flights[k].origin = all_filtered_flights[k + 1].origin
          /\ all_filtered_flights[k].date = Date1
          /\ all_filtered_flights[k + 1].date = Date2
    /\ \E k \in 1..(Len(all_filtered_flights) - 1) :
          /\ all_filtered_flights[k].origin = all_filtered_flights[k + 1].origin
          /\ all_filtered_flights[k].date = all_filtered_flights[k + 1].date
          /\ all_filtered_flights[k].depart_time # all_filtered_flights[k + 1].depart_time

\* C10: at every point of the run each flight of all_filtered_flights occurs
\* in all_flights (so the filtered flights are no more than the flights) and
\* meets the criteria of the run; and every flight an iteration adds to
\* all_flights or all_filtered_flights carries the date of the combination of
\* that iteration.
C10_FilteredWithinAllAndDatedByCombo ==
    /\ [](/\ Len(all_filtered_flights) <= Len(all_flights)
          /\ \A k \in 1..Len(all_filtered_flights) :
                /\ Count(all_filtered_flights[k], all_filtered_flights)
                      <= Count(all_filtered_flights[k], all_flights)
                /\ MeetsCriteria(all_filtered_flights[k], cfg))
    /\ [][Iterates =>
             /\ SubSeq(all_flights', 1, Len(all_flights)) = all_flights
             /\ \A k \in (Len(all_flights) + 1)..Len(all_flights') :
                   all_flights'[k].date = Last(log').combo[1]
             /\ SubSeq(all_filtered_flights', 1, Len(all_filtered_flights))
                   = all_filtered_flights
             /\ \A k \in (Len(all_filtered_flights) + 1)..Len(all_filtered_flights') :
                   all_filtered_flights'[k].date = Last(log').combo[1]]_vars

\* C10 witness: flights of both dates collected, some of them filtered out
\* and some of both dates kept.
C10_Witness ==
    /\ Len(all_filtered_flights) < Len(all_flights)
    /\ \E a, b \in 1..Len(all_filtered_flights) :
          /\ all_filtered_flights[a].date = Date1
          /\ all_filtered_flights[b].date = Date2
    /\ \E k \in 1..Len(all_flights) : ~MeetsCriteria(all_flights[k], cfg)

=============================================================================
